---------------------------- MODULE Spec2Model ----------------------------
(***************************************************************************)
(* Model of the translation pipeline of src/translator/translate.py: the   *)
(* Record Store (database.json), the XML catalog, the batch translator     *)
(* with its per-record fallback, the catalog writer and the glossary       *)
(* mapper, driven by the __main__ block.                                   *)
(*                                                                         *)
(* A text is a sequence of one-character strings, so that str.strip, the   *)
(* regular expressions of extract_json_from_text, json.loads and the       *)
(* substring test are computed character by character.                     *)
(***************************************************************************)
EXTENDS Integers, Sequences, FiniteSets, TLC

(***************************************************************************)
(* Bounds of the model.                                                    *)
(***************************************************************************)
MaxMessages == 2      \* <message> elements in the source catalog
MaxBatch == 2         \* largest configured chunk_size_translate
MaxStore == 3         \* the script is started again while the store is shorter

(***************************************************************************)
(* Texts.                                                                  *)
(***************************************************************************)
WS == {" "}
Digits == {"1"}
QUOTE == "\""

RECURSIVE lstrip(_)
lstrip(s) == IF s # <<>> /\ Head(s) \in WS THEN lstrip(Tail(s)) ELSE s

RECURSIVE rstrip(_)
rstrip(s) ==
    IF s # <<>> /\ s[Len(s)] \in WS THEN rstrip(SubSeq(s, 1, Len(s) - 1)) ELSE s

\* str.strip()
strip(s) == rstrip(lstrip(s))

\* t in s, for two str
IsSubstring(t, s) ==
    \E i \in 0..(Len(s) - Len(t)) : SubSeq(s, i + 1, i + Len(t)) = t

\* " ".join(texts)
RECURSIVE join(_)
join(texts) ==
    IF texts = <<>> THEN <<>>
    ELSE IF Len(texts) = 1 THEN texts[1]
    ELSE texts[1] \o <<" ">> \o join(Tail(texts))

\* text[i:] starts with the literal lit
StartsAt(text, i, lit) ==
    /\ i >= 1
    /\ i + Len(lit) - 1 <= Len(text)
    /\ SubSeq(text, i, i + Len(lit) - 1) = lit

\* first index >= i that holds no whitespace (Len(text) + 1 when there is none)
RECURSIVE SkipWs(_, _)
SkipWs(text, i) ==
    IF i <= Len(text) /\ text[i] \in WS THEN SkipWs(text, i + 1) ELSE i

Closer(c) == IF c = "{" THEN "}" ELSE "]"

Max(S) == CHOOSE x \in S : \A y \in S : y <= x
Min(S) == CHOOSE x \in S : \A y \in S : x <= y

\* extract_json_from_text: re.search (re.DOTALL) of a fenced group, an opening
\* fence, whitespace, a group from a brace to a brace or from a bracket to a
\* bracket, whitespace, a closing fence; then of a bare group. The result is
\* the group of the leftmost match, the group taken as long as it can be.
\* BT stands for the backquote character
BT == "BT"
FENCE_OPEN == <<BT, BT, BT, "j", "s", "o", "n">>
FENCE_CLOSE == <<BT, BT, BT>>

\* ends r of a group text[q..r] that whitespace and the closing fence follow
FencedEnds(text, q) ==
    {r \in (q + 1)..Len(text) :
        /\ text[r] = Closer(text[q])
        /\ StartsAt(text, SkipWs(text, r + 1), FENCE_CLOSE)}

\* starts p of a match of the first expression
FencedStarts(text) ==
    {p \in 1..Len(text) :
        /\ StartsAt(text, p, FENCE_OPEN)
        /\ LET q == SkipWs(text, p + Len(FENCE_OPEN))
           IN  /\ q <= Len(text)
               /\ text[q] \in {"{", "["}
               /\ FencedEnds(text, q) # {}}

\* ends r of a group text[q..r] of the second expression
BareEnds(text, q) ==
    {r \in (q + 1)..Len(text) : text[r] = Closer(text[q])}

BareStarts(text) ==
    {q \in 1..Len(text) : text[q] \in {"{", "["} /\ BareEnds(text, q) # {}}

extract_json_from_text(text) ==
    IF FencedStarts(text) # {}
    THEN LET q == SkipWs(text, Min(FencedStarts(text)) + Len(FENCE_OPEN))
         IN  SubSeq(text, q, Max(FencedEnds(text, q)))
    ELSE IF BareStarts(text) # {}
    THEN LET q == Min(BareStarts(text))
         IN  SubSeq(text, q, Max(BareEnds(text, q)))
    ELSE text

(***************************************************************************)
(* json.loads, on the characters of a text.  A decoded value is a record   *)
(* [t, s, items, keys]: t is its Python type, s the characters of a str,   *)
(* items the elements of a list or the values of a dict, keys the keys of  *)
(* a dict in document order.  The alphabet of the model holds no           *)
(* backslash, so a string literal ends at the next quote.                  *)
(***************************************************************************)
JVal(t, s, items, keys) == [t |-> t, s |-> s, items |-> items, keys |-> keys]
JStr(s) == JVal("str", s, <<>>, <<>>)
JNum == JVal("int", <<>>, <<>>, <<>>)
JLiteral == JVal("literal", <<>>, <<>>, <<>>)
JList(items) == JVal("list", <<>>, items, <<>>)
JDict(keys, items) == JVal("dict", <<>>, items, keys)

Parsed(v, nxt) == [ok |-> TRUE, val |-> v, nxt |-> nxt]
ParseFail == [ok |-> FALSE, val |-> JLiteral, nxt |-> 0]

LITERALS == {<<"n", "u", "l", "l">>, <<"t", "r", "u", "e">>,
             <<"f", "a", "l", "s", "e">>}

\* first index >= i that holds no digit
RECURSIVE SkipDigits(_, _)
SkipDigits(text, i) ==
    IF i <= Len(text) /\ text[i] \in Digits THEN SkipDigits(text, i + 1) ELSE i

\* index of the first quote at or after i (0 when there is none)
RECURSIVE NextQuote(_, _)
NextQuote(text, i) ==
    IF i > Len(text) THEN 0
    ELSE IF text[i] = QUOTE THEN i
    ELSE NextQuote(text, i + 1)

\* a string literal that starts at the quote text[i]
ParseString(text, i) ==
    LET j == NextQuote(text, i + 1)
    IN  IF j = 0 THEN ParseFail ELSE Parsed(JStr(SubSeq(text, i + 1, j - 1)), j + 1)

RECURSIVE ParseValue(_, _)
RECURSIVE ParseElems(_, _, _)
RECURSIVE ParseMembers(_, _, _, _)

\* the elements of an array after its bracket, the next element at i
ParseElems(text, i, acc) ==
    LET r == ParseValue(text, i)
    IN  IF ~r.ok THEN ParseFail
        ELSE LET j == SkipWs(text, r.nxt)
             IN  IF j > Len(text) THEN ParseFail
                 ELSE IF text[j] = "]" THEN Parsed(JList(Append(acc, r.val)), j + 1)
                 ELSE IF text[j] = ","
                 THEN ParseElems(text, SkipWs(text, j + 1), Append(acc, r.val))
                 ELSE ParseFail

\* the members of an object after its brace, the next key at i
ParseMembers(text, i, keys, vals) ==
    IF i > Len(text) \/ text[i] # QUOTE THEN ParseFail
    ELSE LET k == ParseString(text, i)
         IN  IF ~k.ok THEN ParseFail
             ELSE LET c == SkipWs(text, k.nxt)
                  IN  IF c > Len(text) \/ text[c] # ":" THEN ParseFail
                      ELSE LET r == ParseValue(text, SkipWs(text, c + 1))
                           IN  IF ~r.ok THEN ParseFail
                               ELSE LET j == SkipWs(text, r.nxt)
                                        ks == Append(keys, k.val.s)
                                        vs == Append(vals, r.val)
                                    IN  IF j > Len(text) THEN ParseFail
                                        ELSE IF text[j] = "}"
                                        THEN Parsed(JDict(ks, vs), j + 1)
                                        ELSE IF text[j] = ","
                                        THEN ParseMembers(text, SkipWs(text, j + 1), ks, vs)
                                        ELSE ParseFail

\* the value that starts at i
ParseValue(text, i) ==
    IF i > Len(text) THEN ParseFail
    ELSE IF text[i] = QUOTE THEN ParseString(text, i)
    ELSE IF text[i] \in Digits THEN Parsed(JNum, SkipDigits(text, i))
    ELSE IF text[i] = "["
    THEN LET j == SkipWs(text, i + 1)
         IN  IF j <= Len(text) /\ text[j] = "]" THEN Parsed(JList(<<>>), j + 1)
             ELSE ParseElems(text, j, <<>>)
    ELSE IF text[i] = "{"
    THEN LET j == SkipWs(text, i + 1)
         IN  IF j <= Len(text) /\ text[j] = "}" THEN Parsed(JDict(<<>>, <<>>), j + 1)
             ELSE ParseMembers(text, j, <<>>, <<>>)
    ELSE IF \E lit \in LITERALS : StartsAt(text, i, lit)
    THEN Parsed(JLiteral, i + Len(CHOOSE lit \in LITERALS : StartsAt(text, i, lit)))
    ELSE ParseFail

\* json.loads(text): ok is FALSE where it raises JSONDecodeError
json_loads(text) ==
    LET r == ParseValue(text, SkipWs(text, 1))
    IN  IF r.ok /\ SkipWs(text, r.nxt) > Len(text) THEN r ELSE ParseFail

\* len(v) is defined (no TypeError)
HasLen(v) == v.t \in {"str", "list", "dict"}

\* len(v)
PyLen(v) ==
    IF v.t = "str" THEN Len(v.s)
    ELSE IF v.t = "list" THEN Len(v.items)
    ELSE Cardinality({v.keys[k] : k \in 1..Len(v.keys)})

\* fault: v[i] taken without the strip()
StripItem_Untrimmed(v, i) ==
    IF v.t = "str" THEN [ok |-> TRUE, s |-> <<v.s[i]>>]
    ELSE IF v.t = "list" /\ v.items[i].t = "str"
    THEN [ok |-> TRUE, s |-> v.items[i].s]
    ELSE [ok |-> FALSE, s |-> <<>>]

\* v[i].strip() with i counted from 1, for i <= len(v): ok is FALSE where it
\* raises (KeyError on a dict, AttributeError on an element that is no str)
StripItem(v, i) ==
    IF v.t = "str" THEN [ok |-> TRUE, s |-> strip(<<v.s[i]>>)]
    ELSE IF v.t = "list" /\ v.items[i].t = "str"
    THEN [ok |-> TRUE, s |-> strip(v.items[i].s)]
    ELSE [ok |-> FALSE, s |-> <<>>]

(***************************************************************************)
(* Python values of the program.                                           *)
(***************************************************************************)
\* texts_to_check is a list of str or a single str (isinstance, line 164)
PyList(texts) == [isList |-> TRUE, v |-> texts]
PyStr(text) == [isList |-> FALSE, v |-> text]

\* s[:n], the slice of a list
Slice(s, n) ==
    IF n >= 0 THEN SubSeq(s, 1, IF n < Len(s) THEN n ELSE Len(s))
    ELSE SubSeq(s, 1, IF Len(s) + n > 0 THEN Len(s) + n ELSE 0)

\* a record of the Record Store as import_xml_to_json creates it
NewRecord(name) ==
    [name |-> name, value |-> <<>>, processed |-> FALSE, glossaries |-> <<>>]

\* fault: the processed records are selected too
to_process_of_All(d) == [i \in 1..Len(d) |-> i]

\* positions of the records of d with processed false, in Record Store order
\* (to_process holds the very objects of db, so a position stands for one)
to_process_of(d) ==
    SelectSeq([i \in 1..Len(d) |-> i], LAMBDA i : ~d[i].processed)

\* [item['name'] for item in batch]
NamesOf(d, batch) == [i \in 1..Len(batch) |-> d[batch[i]].name]

\* [t['term'] for t in technical_terms if t.get("do_not_translate")]
glossary_terms_objs(g) ==
    LET kept == SelectSeq(g, LAMBDA t : t.do_not_translate)
    IN  [i \in 1..Len(kept) |-> kept[i].term]

\* [t for t in terms if t in text]
TermsIn(terms, text) == SelectSeq(terms, LAMBDA t : IsSubstring(t, text))

\* fault: rule 3 names every glossary term, in the texts or not
build_system_prompt_AllTerms(glossary_terms, texts_to_check, batch_mode) ==
    [named |-> glossary_terms, batch_mode |-> batch_mode]

(***************************************************************************)
(* build_system_prompt.  The instruction is the fixed rules 1 and 2, rule  *)
(* 3 with the quoted relevant terms (absent when there is none) and rule 4 *)
(* in its array or its bare-string wording: it is modelled by the terms    *)
(* rule 3 names and by the wording of rule 4.                              *)
(***************************************************************************)
build_system_prompt(glossary_terms, texts_to_check, batch_mode) ==
    LET combined_text == IF texts_to_check.isList THEN join(texts_to_check.v)
                         ELSE texts_to_check.v
        relevant_terms == TermsIn(glossary_terms, combined_text)
    IN  [named |-> relevant_terms, batch_mode |-> batch_mode]

(***************************************************************************)
(* translate_texts, after the provider has answered with the text raw: the *)
(* ollama branch strips the content before the extraction, the aws branch  *)
(* does not.                                                               *)
(***************************************************************************)
SUPPORTED == {"ollama", "aws"}

translate_texts(provider, raw) ==
    IF provider = "ollama" THEN extract_json_from_text(strip(raw))
    ELSE extract_json_from_text(raw)

\* fault: the comparison of line 275 off by one, upwards
ReturnValue_StopsEarly(len_to_process, batch_size) ==
    len_to_process > batch_size + 1

\* fault: the comparison of line 275 not strict
ReturnValue_NotStrict(len_to_process, batch_size) ==
    len_to_process >= batch_size

\* line 275, the value translate_items returns after a batch that validated
ReturnValue(len_to_process, batch_size) == len_to_process > batch_size

\* a <name> or <value> child that the <message> does not have (find returns
\* None); an element without text has the text <<>>
NONE == <<"None">>

\* lines 201-218: the messages msgs appended to d, existing the names seen
RECURSIVE ImportFrom(_, _, _)
ImportFrom(d, existing, msgs) ==
    IF msgs = <<>> THEN d
    ELSE LET name == strip(Head(msgs).name)
         IN  IF Head(msgs).name \notin {NONE, <<>>} /\ name \notin existing
             THEN ImportFrom(Append(d, NewRecord(name)), existing \cup {name},
                             Tail(msgs))
             ELSE ImportFrom(d, existing, Tail(msgs))

\* {i['name'] for i in db if i.get("name")}
ExistingNames(d) == {d[i].name : i \in {j \in 1..Len(d) : d[j].name # <<>>}}

\* fault: the lookup built from the processed records only
TranslationKeys_ProcessedOnly(d) ==
    {d[i].name : i \in {j \in 1..Len(d) : d[j].value # <<>> /\ d[j].processed}}

\* {i['name']: i['value'] for i in db if i.get('value')}: the keys, and the
\* value of a key (the last record of that name wins)
TranslationKeys(d) == {d[i].name : i \in {j \in 1..Len(d) : d[j].value # <<>>}}
TranslationOf(d, name) ==
    d[Max({j \in 1..Len(d) : d[j].value # <<>> /\ d[j].name = name})].value

\* lines 315-318: the message m is one whose value node is overwritten
Overwritten(d, m) ==
    /\ m.name \notin {NONE, <<>>}
    /\ strip(m.name) \in TranslationKeys(d)
    /\ m.value # NONE

\* fault: the value node gets the translation added to its text
UpdatedMessage_Appends(d, m) ==
    IF Overwritten(d, m)
    THEN [m EXCEPT !.value = m.value \o TranslationOf(d, strip(m.name))]
    ELSE m

\* lines 311-324 on one message
UpdatedMessage(d, m) ==
    IF Overwritten(d, m)
    THEN [m EXCEPT !.value = TranslationOf(d, strip(m.name))]
    ELSE m

\* lines 311-328: the messages of the catalog as tree.write leaves them
UpdatedCatalog(d, msgs) == [i \in 1..Len(msgs) |-> UpdatedMessage(d, msgs[i])]

\* updated_count of line 324 when the loop has ended
updated_count(d, msgs) ==
    Cardinality({i \in 1..Len(msgs) : Overwritten(d, msgs[i])})

\* lines 145-153: the glossaries of every record set from its value
MappedGlossaries(d, g) ==
    LET all_terms == [i \in 1..Len(g) |-> g[i].term]
    IN  [i \in 1..Len(d) |-> [d[i] EXCEPT !.glossaries = TermsIn(all_terms, d[i].value)]]

(***************************************************************************)
(* Inputs: the catalogs, the glossary files and the texts the backend      *)
(* answers with.                                                           *)
(***************************************************************************)
RawNames == {<<"a", " ">>, <<"b">>, <<" ">>}

Messages == [name : RawNames, value : {<<>>}]

Catalogs == UNION {[1..n -> Messages] : n \in 0..MaxMessages}

Glossaries ==
    { << [term |-> <<"a">>, do_not_translate |-> TRUE],
         [term |-> <<"a", " ", "b">>, do_not_translate |-> TRUE],
         [term |-> <<"b">>, do_not_translate |-> FALSE] >> }

Providers == {"ollama", "aws", "other"}

Quoted(text) == <<QUOTE>> \o text \o <<QUOTE>>

RECURSIVE RenderItems(_)
RenderItems(items) ==
    IF items = <<>> THEN <<>>
    ELSE IF Len(items) = 1 THEN items[1]
    ELSE items[1] \o <<",", " ">> \o RenderItems(Tail(items))

\* the JSON text of an array of the items given as JSON texts
RenderArray(items) == <<"[">> \o RenderItems(items) \o <<"]">>

Fenced(text) == FENCE_OPEN \o <<" ">> \o text \o <<" ">> \o FENCE_CLOSE

ReplyElements == {<<" ", "x", " ">>, <<" ">>}

\* the arrays of n strings
StringArrays(n) ==
    {RenderArray([i \in 1..n |-> Quoted(a[i])]) : a \in [1..n -> ReplyElements]}

PlainArray(n) == RenderArray([i \in 1..n |-> Quoted(<<"x">>)])

\* what the provider may answer to the request for a batch of n records: an
\* array of n strings, bare, fenced or inside prose; an array one shorter or
\* one longer; prose; a cut array; arrays that hold a number; a JSON string of
\* n characters; an object; a literal
BatchReplies(n) ==
    StringArrays(n)
    \cup { Fenced(PlainArray(n)),
           <<"o", "k", " ">> \o PlainArray(n) \o <<" ">>,
           PlainArray(n - 1),
           PlainArray(n + 1),
           <<"o", "k">>,
           <<"[", QUOTE, "x">>,
           RenderArray([i \in 1..n |-> IF i = n THEN <<"1">> ELSE Quoted(<<"x">>)]),
           Quoted([i \in 1..n |-> "x"]),
           <<"{">> \o Quoted(<<"a">>) \o <<":", " ">> \o Quoted(<<"x">>) \o <<"}">>,
           <<"n", "u", "l", "l">> }

FallbackReplies ==
    { <<" ", "x", " ">>,
      <<" ">>,
      <<"s", " ", "[", "x", "]", " ", "s">> }

\* the loop of lines 261-263 from item i on: error is the exception it raises
\* ("none" when it ends), db the Record Store in memory as the loop leaves it
RECURSIVE AssignFrom(_, _, _, _)
AssignFrom(d, batch, translations, i) ==
    IF i > Len(batch) THEN [error |-> "none", db |-> d]
    ELSE LET r == StripItem(translations, i)
         IN  IF ~r.ok
             THEN [error |-> IF translations.t = "dict" THEN "KeyError"
                             ELSE "AttributeError",
                   db |-> d]
             ELSE AssignFrom([d EXCEPT ![batch[i]].value = r.s,
                                       ![batch[i]].processed = TRUE],
                             batch, translations, i + 1)

\* fault: the length test of line 257 lets a longer reply through
TryBatch_LongerAccepted(d, batch, response_content) ==
    LET parsed == json_loads(response_content)
    IN  IF ~parsed.ok THEN [error |-> "JSONDecodeError", db |-> d]
        ELSE IF ~HasLen(parsed.val) THEN [error |-> "TypeError", db |-> d]
        ELSE IF PyLen(parsed.val) < Len(batch) THEN [error |-> "ValueError", db |-> d]
        ELSE AssignFrom(d, batch, parsed.val, 1)

\* the try block of lines 254-263 on response_content
TryBatch(d, batch, response_content) ==
    LET parsed == json_loads(response_content)
    IN  IF ~parsed.ok THEN [error |-> "JSONDecodeError", db |-> d]
        ELSE IF ~HasLen(parsed.val) THEN [error |-> "TypeError", db |-> d]
        ELSE IF PyLen(parsed.val) # Len(batch) THEN [error |-> "ValueError", db |-> d]
        ELSE AssignFrom(d, batch, parsed.val, 1)

(***************************************************************************)
(* State.                                                                  *)
(***************************************************************************)
VARIABLES
    CONFIG,        \* the configuration load_config returned
    xml,           \* it-it.xml: whether it exists, and its <message> elements
    glossary,      \* technical_terms of glossary.json
    database,      \* database.json: whether json.load reads it, and its records
    persisted,     \* the records of the last write of database.json that completed
    pc,            \* where the running script is
    db,            \* the list db of the running function
    batch,         \* the records of batch, as positions in db
    len_to_process, \* len(to_process)
    relevant_glossary_terms,
    k,             \* position in batch of the record the fallback is at
    requests,      \* the requests of the current translate_items call
    response,      \* what the provider answered to the last request
    path,          \* none | empty | batch | fallback: how the call went
    caught,        \* the exception line 265 caught ("none" when there was none)
    result,        \* None | True | False: what translate_items returned
    wbuf,          \* data of the save_json under way
    num_sostituiti, \* what update_xml_with_translations returned
    others,        \* the other *.xml files beside it-it.xml: the <name> texts of each
    xml_updated,   \* xml_updated of xml_name_checker.main
    config_file,   \* config.json: whether it exists, and its content
    after          \* pc once the save_json under way returns

vars == <<CONFIG, xml, glossary, database, persisted, pc, db,
          batch, len_to_process, relevant_glossary_terms, k, requests,
          response, path, caught, result, wbuf, after,
          num_sostituiti, others, xml_updated, config_file>>

files == <<xml, glossary, database, persisted>>
locals == <<db, batch, len_to_process, relevant_glossary_terms, k, requests,
            response, path, caught, result, wbuf, after>>

\* what the translator's functions leave alone
aside == <<others, xml_updated, config_file>>

NoResponse == [kind |-> "none", text |-> <<>>]

Running == {"start", "import", "loop", "batch_call", "fallback_call",
            "saving", "writeback", "mapping"}
Stopped == {"done", "raised", "interrupted"}

Configs ==
    [llm_provider : Providers,
     chunk_size_translate : 1..MaxBatch,
     enable_glossary_mapping_only : BOOLEAN,
     enable_generate_translation_only : BOOLEAN]

FreshLocals ==
    /\ db = <<>>
    /\ batch = <<>>
    /\ len_to_process = 0
    /\ relevant_glossary_terms = <<>>
    /\ k = 0
    /\ requests = <<>>
    /\ response = NoResponse
    /\ path = "none"
    /\ caught = "none"
    /\ result = "None"
    /\ wbuf = <<>>
    /\ after = "start"
    /\ num_sostituiti = 0

Init ==
    /\ CONFIG \in Configs
    /\ xml \in {[exists |-> FALSE, messages |-> <<>>]}
               \cup {[exists |-> TRUE, messages |-> c] : c \in Catalogs}
    /\ glossary \in Glossaries
    /\ database = [readable |-> TRUE, data |-> <<>>]
    /\ persisted = <<>>
    /\ pc = "start"
    /\ FreshLocals
    /\ others = {}
    /\ xml_updated = FALSE
    /\ config_file = [exists |-> TRUE, data |-> CONFIG]

(***************************************************************************)
(* Steps shared by the handlers.                                           *)
(***************************************************************************)
\* save_json(DB_PATH, data) is entered: open(path, 'w') has emptied the file
\* and json.dump has not finished, so json.load cannot read what is there
BeginSave(data, nxt) ==
    /\ database' = [readable |-> FALSE, data |-> <<>>]
    /\ wbuf' = data
    /\ after' = nxt
    /\ pc' = "saving"

\* the process ends: what the running functions held in memory is gone
MemoryLost ==
    /\ db' = <<>>
    /\ batch' = <<>>
    /\ len_to_process' = 0
    /\ relevant_glossary_terms' = <<>>
    /\ k' = 0
    /\ requests' = <<>>
    /\ response' = NoResponse
    /\ wbuf' = <<>>
    /\ after' = "start"
    /\ result' = "None"
    /\ path' = "none"
    /\ caught' = "none"
    /\ num_sostituiti' = 0

\* an exception leaves the script: nothing catches it
Raise == pc' = "raised"

\* the request of translate_texts(texts, system_prompt, batch_mode=...)
Request(texts, system_prompt, batch_mode) ==
    [texts |-> texts, system_prompt |-> system_prompt, batch_mode |-> batch_mode]

\* the fallback loop of lines 280-291 arrives at item i of batch with the
\* Record Store d in memory: the request for item i, or the save and return
FallbackAt(d, i) ==
    IF i <= Len(batch)
    THEN /\ pc' = "fallback_call"
         /\ k' = i
         /\ requests' = Append(requests,
                Request(PyStr(d[batch[i]].name),
                        build_system_prompt(relevant_glossary_terms,
                                            PyStr(d[batch[i]].name), FALSE),
                        FALSE))
         /\ response' = NoResponse
         /\ UNCHANGED <<database, wbuf, after, result>>
    ELSE /\ BeginSave(d, "loop")
         /\ result' = "True"
         /\ k' = i
         /\ response' = NoResponse
         /\ UNCHANGED requests

(***************************************************************************)
(* The script, lines 334-364.                                              *)
(***************************************************************************)
\* fault: the write-back-only flag is not looked at
Main_IgnoresGenerateOnly ==
    /\ pc = "start"
    /\ pc' = IF CONFIG.enable_glossary_mapping_only THEN "mapping" ELSE "import"
    /\ UNCHANGED <<CONFIG, files, locals>>
    /\ UNCHANGED <<num_sostituiti, aside>>

\* lines 343-355: the phase the configuration selects
Main ==
    /\ pc = "start"
    /\ pc' = IF CONFIG.enable_glossary_mapping_only THEN "mapping"
             ELSE IF CONFIG.enable_generate_translation_only THEN "writeback"
             ELSE "import"
    /\ UNCHANGED <<CONFIG, files, locals>>
    /\ UNCHANGED <<num_sostituiti, aside>>

import_xml_to_json ==
    /\ pc = "import"
    /\ IF ~xml.exists
       THEN /\ pc' = "loop"
            /\ UNCHANGED <<database, db, wbuf, after>>
       ELSE IF ~database.readable
       THEN /\ Raise
            /\ UNCHANGED <<database, db, wbuf, after>>
       ELSE /\ db' = ImportFrom(database.data, ExistingNames(database.data),
                                xml.messages)
            /\ BeginSave(db', "loop")
    /\ UNCHANGED <<CONFIG, xml, glossary, persisted, batch, len_to_process,
                   relevant_glossary_terms, k, requests, response, path, caught,
                   result>>
    /\ UNCHANGED <<num_sostituiti, aside>>

\* translate_items up to the call of translate_texts, lines 223-252
translate_items ==
    /\ pc = "loop"
    /\ IF ~database.readable
       THEN /\ Raise
            /\ UNCHANGED <<db, batch, len_to_process, relevant_glossary_terms,
                           requests, response, path, caught, result>>
       ELSE LET d == database.data
                to_process == to_process_of(d)
                b == Slice(to_process, CONFIG.chunk_size_translate)
                terms == TermsIn(glossary_terms_objs(glossary), join(NamesOf(d, b)))
                texts_list == NamesOf(d, b)
            IN  /\ db' = d
                /\ len_to_process' = Len(to_process)
                /\ response' = NoResponse
                /\ caught' = "none"
                /\ IF to_process = <<>>
                   THEN /\ pc' = "writeback"
                        /\ result' = "False"
                        /\ path' = "empty"
                        /\ batch' = <<>>
                        /\ relevant_glossary_terms' = <<>>
                        /\ requests' = <<>>
                   ELSE /\ pc' = "batch_call"
                        /\ result' = "None"
                        /\ path' = "batch"
                        /\ batch' = b
                        /\ relevant_glossary_terms' = terms
                        /\ requests' = <<Request(PyList(texts_list),
                               build_system_prompt(terms, PyList(texts_list), TRUE),
                               TRUE)>>
    /\ UNCHANGED <<CONFIG, files, k, wbuf, after>>
    /\ UNCHANGED <<num_sostituiti, aside>>

\* translate_texts: the provider answers the request with a text
BackendReplies ==
    /\ pc \in {"batch_call", "fallback_call"}
    /\ response.kind = "none"
    /\ CONFIG.llm_provider \in SUPPORTED
    /\ \E raw \in (IF pc = "batch_call" THEN BatchReplies(Len(batch))
                   ELSE FallbackReplies) :
           response' = [kind |-> "text", text |-> raw]
    /\ UNCHANGED <<CONFIG, files, pc, db, batch, len_to_process,
                   relevant_glossary_terms, k, requests, path, caught, result, wbuf,
                   after>>
    /\ UNCHANGED <<num_sostituiti, aside>>

\* translate_texts raises: the call of the provider fails (ollama.chat raises,
\* lines 129-131 re-raise) or the provider is not supported (line 134)
BackendFails ==
    /\ pc \in {"batch_call", "fallback_call"}
    /\ response.kind = "none"
    /\ response' = [kind |-> "error", text |-> <<>>]
    /\ UNCHANGED <<CONFIG, files, pc, db, batch, len_to_process,
                   relevant_glossary_terms, k, requests, path, caught, result, wbuf,
                   after>>
    /\ UNCHANGED <<num_sostituiti, aside>>

\* translate_items from the return of translate_texts on, lines 254-275
translate_items_reply ==
    /\ pc = "batch_call"
    /\ response.kind = "text"
    /\ LET response_content == translate_texts(CONFIG.llm_provider, response.text)
           tried == TryBatch(db, batch, response_content)
       IN  /\ db' = tried.db
           /\ caught' = tried.error
           /\ IF tried.error = "none"
              THEN /\ BeginSave(tried.db,
                        IF ReturnValue(len_to_process, CONFIG.chunk_size_translate)
                        THEN "loop" ELSE "writeback")
                   /\ result' = IF ReturnValue(len_to_process,
                                               CONFIG.chunk_size_translate)
                                THEN "True" ELSE "False"
                   /\ response' = NoResponse
                   /\ UNCHANGED <<path, k, requests>>
              ELSE /\ path' = "fallback"
                   /\ FallbackAt(tried.db, 1)
    /\ UNCHANGED <<CONFIG, xml, glossary, persisted, batch,
                   len_to_process, relevant_glossary_terms>>
    /\ UNCHANGED <<num_sostituiti, aside>>

\* translate_texts raised at line 247, outside the try of line 254
translate_items_raise ==
    /\ pc = "batch_call"
    /\ response.kind = "error"
    /\ Raise
    /\ MemoryLost
    /\ UNCHANGED <<CONFIG, files>>
    /\ UNCHANGED aside

\* one turn of the loop of translate_items_fallback, lines 280-288, and after
\* the last one lines 290-291
translate_items_fallback ==
    /\ pc = "fallback_call"
    /\ response.kind = "text"
    /\ LET text == strip(translate_texts(CONFIG.llm_provider, response.text))
           d == [db EXCEPT ![batch[k]].value = text, ![batch[k]].processed = TRUE]
       IN  /\ db' = d
           /\ FallbackAt(d, k + 1)
    /\ UNCHANGED <<CONFIG, xml, glossary, persisted, batch,
                   len_to_process, relevant_glossary_terms, path, caught>>
    /\ UNCHANGED <<num_sostituiti, aside>>

\* translate_texts raised at line 282: nothing in the fallback catches it
translate_items_fallback_raise ==
    /\ pc = "fallback_call"
    /\ response.kind = "error"
    /\ Raise
    /\ MemoryLost
    /\ UNCHANGED <<CONFIG, files>>
    /\ UNCHANGED aside

\* save_json returns: json.dump has written all of data
save_json ==
    /\ pc = "saving"
    /\ database' = [readable |-> TRUE, data |-> wbuf]
    /\ persisted' = wbuf
    /\ pc' = after
    /\ UNCHANGED <<CONFIG, xml, glossary, db, batch,
                   len_to_process, relevant_glossary_terms, k, requests,
                   response, path, caught, result, wbuf, after>>
    /\ UNCHANGED <<num_sostituiti, aside>>

update_xml_with_translations ==
    /\ pc = "writeback"
    /\ IF ~xml.exists
       THEN /\ pc' = IF CONFIG.enable_generate_translation_only THEN "done"
                     ELSE "mapping"
            /\ num_sostituiti' = 0
            /\ UNCHANGED <<xml>>
       ELSE IF ~database.readable
       THEN /\ Raise
            /\ UNCHANGED <<xml, num_sostituiti>>
       ELSE /\ xml' = [xml EXCEPT !.messages =
                          UpdatedCatalog(database.data, xml.messages)]
            /\ num_sostituiti' = updated_count(database.data, xml.messages)
            /\ pc' = IF CONFIG.enable_generate_translation_only THEN "done"
                     ELSE "mapping"
    /\ UNCHANGED <<CONFIG, glossary, database, persisted, locals>>
    /\ UNCHANGED aside

map_glossaries_to_database ==
    /\ pc = "mapping"
    /\ IF ~database.readable
       THEN /\ Raise
            /\ UNCHANGED <<database, db, wbuf, after>>
       ELSE IF database.data = <<>> \/ glossary = <<>>
       THEN /\ pc' = "done"
            /\ UNCHANGED <<database, db, wbuf, after>>
       ELSE /\ db' = MappedGlossaries(database.data, glossary)
            /\ BeginSave(db', "done")
    /\ UNCHANGED <<CONFIG, xml, glossary, persisted, batch, len_to_process,
                   relevant_glossary_terms, k, requests, response, path, caught,
                   result>>
    /\ UNCHANGED <<num_sostituiti, aside>>

\* the run is interrupted (the process is killed, the machine halts)
Interrupt ==
    /\ pc \in Running
    /\ pc' = "interrupted"
    /\ MemoryLost
    /\ UNCHANGED <<CONFIG, files>>
    /\ UNCHANGED aside

\* the script is started again on the files the last run left
Rerun ==
    /\ pc \in Stopped
    /\ Len(database.data) < MaxStore
    /\ pc' = "start"
    /\ db' = <<>>
    /\ batch' = <<>>
    /\ len_to_process' = 0
    /\ relevant_glossary_terms' = <<>>
    /\ k' = 0
    /\ requests' = <<>>
    /\ response' = NoResponse
    /\ path' = "none"
    /\ caught' = "none"
    /\ result' = "None"
    /\ wbuf' = <<>>
    /\ after' = "start"
    /\ UNCHANGED <<CONFIG, files>>
    /\ num_sostituiti' = 0
    /\ UNCHANGED aside

Next ==
    \/ Main
    \/ import_xml_to_json
    \/ translate_items
    \/ BackendReplies
    \/ BackendFails
    \/ translate_items_reply
    \/ translate_items_raise
    \/ translate_items_fallback
    \/ translate_items_fallback_raise
    \/ save_json
    \/ update_xml_with_translations
    \/ map_glossaries_to_database
    \/ Interrupt
    \/ Rerun

Spec == Init /\ [][Next]_vars

(***************************************************************************)
(* The driving loop when every backend call returns: a supported provider  *)
(* that always answers, the standard flow, no interruption.  The script is *)
(* sequential and runs on as long as it can: weak fairness of its steps.   *)
(* translate_items_reply is enabled exactly when BatchReplyArrives holds   *)
(* and its step leaves that condition, so its weak fairness is stated as   *)
(* []<>~BatchReplyArrives.                                                 *)
(***************************************************************************)
BatchReplyArrives == pc = "batch_call" /\ response.kind = "text"

LiveInit ==
    /\ Init
    /\ CONFIG.llm_provider \in SUPPORTED
    /\ ~CONFIG.enable_glossary_mapping_only
    /\ ~CONFIG.enable_generate_translation_only

LiveNext ==
    \/ Main
    \/ import_xml_to_json
    \/ translate_items
    \/ BackendReplies
    \/ translate_items_reply
    \/ translate_items_fallback
    \/ save_json
    \/ update_xml_with_translations
    \/ map_glossaries_to_database

OtherSteps ==
    \/ Main
    \/ import_xml_to_json
    \/ translate_items
    \/ BackendReplies
    \/ translate_items_fallback
    \/ save_json
    \/ update_xml_with_translations
    \/ map_glossaries_to_database

LiveSpec ==
    /\ LiveInit
    /\ [][LiveNext]_vars
    /\ WF_vars(OtherSteps)
    /\ []<>~BatchReplyArrives

(***************************************************************************)
(* build_system_prompt on its own: glossary_terms is drawn in the initial  *)
(* state, every step builds the instruction for some texts.                *)
(***************************************************************************)
MaxTerms == 2         \* glossary terms handed to build_system_prompt

PromptTerms == {<<"a">>, <<"b">>, <<"a", " ", "b">>, <<"c">>}
PromptTexts == {<<"a">>, <<"b">>, <<"c", "a">>, <<>>}

TermLists == UNION {[1..n -> PromptTerms] : n \in 0..MaxTerms}
TextLists == UNION {[1..n -> PromptTexts] : n \in 0..MaxBatch}

PromptInit ==
    /\ CONFIG \in {c \in Configs : c.llm_provider = "ollama"
                                   /\ c.chunk_size_translate = 1
                                   /\ ~c.enable_glossary_mapping_only
                                   /\ ~c.enable_generate_translation_only}
    /\ xml = [exists |-> FALSE, messages |-> <<>>]
    /\ glossary = <<>>
    /\ database = [readable |-> TRUE, data |-> <<>>]
    /\ persisted = <<>>
    /\ pc = "prompt"
    /\ db = <<>>
    /\ batch = <<>>
    /\ len_to_process = 0
    /\ relevant_glossary_terms \in TermLists
    /\ k = 0
    /\ requests = <<>>
    /\ response = NoResponse
    /\ path = "none"
    /\ caught = "none"
    /\ result = "None"
    /\ wbuf = <<>>
    /\ after = "start"
    /\ num_sostituiti = 0
    /\ others = {}
    /\ xml_updated = FALSE
    /\ config_file = [exists |-> TRUE, data |-> CONFIG]

BuildPrompt ==
    /\ pc = "prompt"
    /\ \E isList \in BOOLEAN, batch_mode \in BOOLEAN :
         \E t \in (IF isList THEN TextLists ELSE PromptTexts) :
           LET texts == IF isList THEN PyList(t) ELSE PyStr(t)
           IN  requests' = <<Request(texts,
                                     build_system_prompt(relevant_glossary_terms,
                                                         texts, batch_mode),
                                     batch_mode)>>
    /\ UNCHANGED <<CONFIG, files, pc, db, batch, len_to_process,
                   relevant_glossary_terms, k, response, path, caught, result,
                   wbuf, after>>
    /\ UNCHANGED <<num_sostituiti, aside>>

PromptNext == BuildPrompt

PromptSpec == PromptInit /\ [][PromptNext]_vars

(***************************************************************************)
(* update_xml_with_translations on its own: the script in the mode that    *)
(* only writes the catalog back (line 347), run again and again on a       *)
(* Record Store and a catalog drawn in the initial state.  database.json   *)
(* is a file the user may edit, so a record may hold a value without being *)
(* processed (the note of line 301); two records share a name only where   *)
(* import_xml_to_json can leave them, at the empty name.  A message may    *)
(* lack its name or its value child.                                       *)
(***************************************************************************)
MaxEntries == 2       \* <message> elements of the catalog written back
MaxRecords == 2       \* records of the Record Store written back

WritebackMessages ==
    { [name |-> <<"a", " ">>, value |-> <<"o">>],
      [name |-> <<"a", " ">>, value |-> NONE],
      [name |-> <<"b">>, value |-> <<>>],
      [name |-> <<" ">>, value |-> <<"o">>],
      [name |-> <<>>, value |-> <<"o">>],
      [name |-> NONE, value |-> <<"o">>] }

WritebackRecords ==
    { [name |-> <<"a">>, value |-> <<"x">>, processed |-> TRUE, glossaries |-> <<>>],
      [name |-> <<"a">>, value |-> <<>>, processed |-> FALSE, glossaries |-> <<>>],
      [name |-> <<"b">>, value |-> <<"y">>, processed |-> FALSE, glossaries |-> <<>>],
      [name |-> <<>>, value |-> <<"x">>, processed |-> TRUE, glossaries |-> <<>>],
      [name |-> <<>>, value |-> <<"y">>, processed |-> TRUE, glossaries |-> <<>>],
      [name |-> <<"c">>, value |-> <<"x">>, processed |-> TRUE, glossaries |-> <<>>] }

WritebackCatalogs == UNION {[1..n -> WritebackMessages] : n \in 0..MaxEntries}

WritebackStores ==
    {d \in UNION {[1..n -> WritebackRecords] : n \in 0..MaxRecords} :
        \A i \in 1..Len(d) : \A j \in 1..Len(d) :
            (i # j /\ d[i].name = d[j].name) => d[i].name = <<>>}

WritebackInit ==
    /\ CONFIG \in {c \in Configs : /\ c.llm_provider = "ollama"
                                   /\ c.chunk_size_translate = 1
                                   /\ ~c.enable_glossary_mapping_only
                                   /\ c.enable_generate_translation_only}
    /\ xml \in {[exists |-> FALSE, messages |-> <<>>]}
               \cup {[exists |-> TRUE, messages |-> c] : c \in WritebackCatalogs}
    /\ glossary = <<>>
    /\ \E d \in WritebackStores :
         /\ database = [readable |-> TRUE, data |-> d]
         /\ persisted = d
    /\ pc = "start"
    /\ FreshLocals
    /\ others = {}
    /\ xml_updated = FALSE
    /\ config_file = [exists |-> TRUE, data |-> CONFIG]

WritebackNext ==
    \/ Main
    \/ update_xml_with_translations
    \/ Rerun

WritebackSpec == WritebackInit /\ [][WritebackNext]_vars

(***************************************************************************)
(* xml_name_checker.py, the aligner.  The target it-it.xml, when it        *)
(* exists, is a catalog that parses and has its <strings> container; each  *)
(* other *.xml file is the set of the texts of its <name> elements.        *)
(***************************************************************************)
MaxOthers == 2        \* other *.xml files beside the target

\* str.lower
lower(s) ==
    [i \in 1..Len(s) |-> IF s[i] = "A" THEN "a" ELSE IF s[i] = "B" THEN "b"
                         ELSE IF s[i] = "T" THEN "t" ELSE s[i]]

\* ord(c)
ord(c) ==
    CASE c = " " -> 32 [] c = "A" -> 65 [] c = "B" -> 66
      [] c = "a" -> 97 [] c = "b" -> 98 [] c = "o" -> 111

\* a < b on str
RECURSIVE StrLess(_, _)
StrLess(a, b) ==
    IF b = <<>> THEN FALSE
    ELSE IF a = <<>> THEN TRUE
    ELSE IF Head(a) # Head(b) THEN ord(Head(a)) < ord(Head(b))
    ELSE StrLess(Tail(a), Tail(b))

\* re.sub(r'\s+', ' ', text): every run of whitespace becomes one space
RECURSIVE Collapse(_)
Collapse(text) ==
    IF text = <<>> THEN <<>>
    ELSE IF Head(text) \in WS THEN <<" ">> \o Collapse(lstrip(text))
    ELSE <<Head(text)>> \o Collapse(Tail(text))

\* lines 15-18; a text that is None is the text <<>>
clean_text(text) == strip(Collapse(text))

\* lines 20-32 on the texts of the <name> elements of a file
get_names_from_file(texts) == {clean_text(t) : t \in texts} \ {<<>>}

\* the texts of the <name> elements of the target
NameTexts(msgs) == {msgs[i].name : i \in {j \in 1..Len(msgs) : msgs[j].name # NONE}}

\* lines 52-61: the (name_text, msg) pairs of the children that have a name
existing_messages(msgs) ==
    LET named == SelectSeq(msgs, LAMBDA m : m.name # NONE)
    IN  [i \in 1..Len(named) |-> [key |-> clean_text(named[i].name), msg |-> named[i]]]

\* lines 64-72 with the set all_missing_tags iterated in the order given
RECURSIVE WithNewMessages(_, _, _)
WithNewMessages(pairs, order, existing_names) ==
    IF order = <<>> THEN pairs
    ELSE IF Head(order) \notin existing_names
    THEN WithNewMessages(
             Append(pairs, [key |-> Head(order),
                            msg |-> [name |-> Head(order), value |-> <<>>]]),
             Tail(order), existing_names)
    ELSE WithNewMessages(pairs, Tail(order), existing_names)

\* fault: the pair is placed by its key as it is written, not lowered
RECURSIVE PlacedByKey_CaseSensitive(_, _)
PlacedByKey_CaseSensitive(x, sorted) ==
    IF sorted = <<>> THEN <<x>>
    ELSE IF StrLess(x.key, Head(sorted).key) THEN <<x>> \o sorted
    ELSE <<Head(sorted)>> \o PlacedByKey_CaseSensitive(x, Tail(sorted))

\* the pair x placed into the sorted pairs, behind the pairs of an equal key
RECURSIVE PlacedByKey(_, _)
PlacedByKey(x, sorted) ==
    IF sorted = <<>> THEN <<x>>
    ELSE IF StrLess(lower(x.key), lower(Head(sorted).key)) THEN <<x>> \o sorted
    ELSE <<Head(sorted)>> \o PlacedByKey(x, Tail(sorted))

\* line 75: list.sort(key=lambda x: x[0].lower()), a stable sort
RECURSIVE SortedByKey(_, _)
SortedByKey(pairs, acc) ==
    IF pairs = <<>> THEN acc
    ELSE SortedByKey(Tail(pairs), PlacedByKey(Head(pairs), acc))

\* lines 52-80: the children of <strings> as update_and_format_xml leaves them
update_and_format_xml(msgs, order) ==
    LET pairs == existing_messages(msgs)
        existing_names == {pairs[i].key : i \in 1..Len(pairs)}
        sorted == SortedByKey(WithNewMessages(pairs, order, existing_names), <<>>)
    IN  [i \in 1..Len(sorted) |-> sorted[i].msg]

\* fault: the names of one file replace those of the files before it
all_other_names_OneFile(fs) ==
    IF fs = {} THEN {} ELSE get_names_from_file(CHOOSE f \in fs : TRUE)

\* lines 104-112: all_other_names
all_other_names(fs) == UNION {get_names_from_file(f) : f \in fs}

\* fault: the names of the target are not taken off
missing_AllOthers(target, fs) == all_other_names(fs)

\* line 114
missing(target, fs) ==
    all_other_names(fs)
        \ (IF target.exists THEN get_names_from_file(NameTexts(target.messages)) ELSE {})

\* the orders in which a set may be iterated
Orders(S) ==
    {f \in [1..Cardinality(S) -> S] : \A i, j \in 1..Cardinality(S) : f[i] = f[j] => i = j}

OtherNames == {<<"A">>, <<"a">>, <<" ", "B">>, <<" ">>}

OtherFiles == {F \in SUBSET (SUBSET OtherNames) : Cardinality(F) <= MaxOthers}

TargetMessages ==
    { [name |-> <<"B">>, value |-> <<"o">>],
      [name |-> <<"a">>, value |-> <<>>],
      [name |-> <<"A">>, value |-> <<"o">>],
      [name |-> <<"a", " ", " ", "B">>, value |-> <<>>],
      [name |-> NONE, value |-> <<"o">>] }

TargetCatalogs == UNION {[1..n -> TargetMessages] : n \in 0..MaxEntries}

AlignInit ==
    /\ CONFIG \in {c \in Configs : /\ c.llm_provider = "ollama"
                                   /\ c.chunk_size_translate = 1
                                   /\ ~c.enable_glossary_mapping_only
                                   /\ ~c.enable_generate_translation_only}
    /\ xml \in {[exists |-> FALSE, messages |-> <<>>]}
               \cup {[exists |-> TRUE, messages |-> c] : c \in TargetCatalogs}
    /\ others \in OtherFiles
    /\ glossary = <<>>
    /\ database = [readable |-> TRUE, data |-> <<>>]
    /\ persisted = <<>>
    /\ pc = "align"
    /\ FreshLocals
    /\ xml_updated = FALSE
    /\ config_file = [exists |-> TRUE, data |-> CONFIG]

\* main, lines 95-119 (the report of lines 121-153 is not kept)
main ==
    /\ pc \in {"align", "realign"}
    /\ IF xml.exists /\ missing(xml, others) # {}
       THEN /\ \E order \in Orders(missing(xml, others)) :
                 xml' = [xml EXCEPT !.messages = update_and_format_xml(xml.messages, order)]
            /\ xml_updated' = TRUE
       ELSE /\ xml_updated' = FALSE
            /\ UNCHANGED xml
    /\ pc' = "aligned"
    /\ UNCHANGED <<CONFIG, glossary, database, persisted, locals, num_sostituiti,
                   others, config_file>>

\* the aligner is started again on the files it left
AlignAgain ==
    /\ pc = "aligned"
    /\ pc' = "realign"
    /\ UNCHANGED <<CONFIG, files, locals, num_sostituiti, aside>>

AlignNext ==
    \/ main
    \/ AlignAgain

AlignSpec == AlignInit /\ [][AlignNext]_vars

(***************************************************************************)
(* The scripts started when config.json or the catalog may be absent:      *)
(* translate.py from its load_config on, and update_glossary.py            *)
(* (load_config at import time, then update_glossary).                     *)
(***************************************************************************)
DefaultChunk == 10
MIN_FREQUENCY == 3

\* CONFIG before load_config has returned
NoConfig ==
    [llm_provider |-> "unset",
     chunk_size_translate |-> 0,
     enable_glossary_mapping_only |-> FALSE,
     enable_generate_translation_only |-> FALSE]

\* translate.py lines 38-46
default_config ==
    [llm_provider |-> "ollama",
     chunk_size_translate |-> DefaultChunk,
     enable_glossary_mapping_only |-> FALSE,
     enable_generate_translation_only |-> FALSE]

\* fault: the translator's load_config raises when config.json is absent
load_config_Raises ==
    /\ pc = "load"
    /\ IF config_file.exists
       THEN /\ CONFIG' = config_file.data
            /\ pc' = "start"
       ELSE /\ Raise
            /\ UNCHANGED CONFIG
    /\ UNCHANGED <<files, locals, num_sostituiti, aside>>

\* translate.py load_config, lines 36-53, called at line 335
load_config ==
    /\ pc = "load"
    /\ CONFIG' = IF config_file.exists THEN config_file.data ELSE default_config
    /\ pc' = "start"
    /\ UNCHANGED <<files, locals, num_sostituiti, aside>>

\* update_glossary.py load_config, lines 16-21, called at line 24
updater_load_config ==
    /\ pc = "updater_load"
    /\ IF config_file.exists
       THEN /\ CONFIG' = config_file.data
            /\ pc' = "updater_main"
       ELSE /\ Raise
            /\ UNCHANGED CONFIG
    /\ UNCHANGED <<files, locals, num_sostituiti, aside>>

Letters == {"a", "b", "d", "e", "h", "i", "m", "r", "t", "w", "A", "B", "T"}

\* re.sub(r'[^a-zA-Z\s]', '', s)
LettersOnly(s) == SelectSeq(s, LAMBDA c : c \in Letters \cup WS)

\* s.split(): the runs of characters between whitespace, w the run being read
RECURSIVE SplitFrom(_, _, _)
SplitFrom(s, i, w) ==
    IF i > Len(s) THEN (IF w = <<>> THEN <<>> ELSE <<w>>)
    ELSE IF s[i] \in WS
    THEN (IF w = <<>> THEN <<>> ELSE <<w>>) \o SplitFrom(s, i + 1, <<>>)
    ELSE SplitFrom(s, i + 1, Append(w, s[i]))

split(s) == SplitFrom(s, 1, <<>>)

stop_words ==
    { <<"t", "h", "e">>, <<"a", "n", "d">>, <<"f", "o", "r">>,
      <<"w", "i", "t", "h">>, <<"f", "r", "o", "m">>, <<"t", "h", "i", "s">>,
      <<"t", "h", "a", "t">>, <<"y", "o", "u", "r">>,
      <<"a", "b", "o", "u", "t">> }

\* lines 131-136: all_text
RECURSIVE all_text(_)
all_text(msgs) ==
    IF msgs = <<>> THEN <<>>
    ELSE (IF Head(msgs).name \notin {NONE, <<>>}
          THEN <<LettersOnly(lower(Head(msgs).name))>> ELSE <<>>)
         \o all_text(Tail(msgs))

\* line 143
tokens_of(sentence) ==
    SelectSeq(split(sentence), LAMBDA w : Len(w) > 3 /\ w \notin stop_words)

\* lines 144-146: the bigrams of one sentence
bigrams_of(tokens) ==
    [i \in 1..(Len(tokens) - 1) |-> tokens[i] \o <<" ">> \o tokens[i + 1]]

\* lines 142-146: words followed by bigrams, the order of the keys of
\* Counter(words) + Counter(bigrams)
RECURSIVE words_of(_)
words_of(sentences) ==
    IF sentences = <<>> THEN <<>>
    ELSE tokens_of(Head(sentences)) \o words_of(Tail(sentences))

RECURSIVE all_bigrams(_)
all_bigrams(sentences) ==
    IF sentences = <<>> THEN <<>>
    ELSE bigrams_of(tokens_of(Head(sentences))) \o all_bigrams(Tail(sentences))

\* the keys of a Counter: each element once, in order of first occurrence
RECURSIVE FirstOccurrences(_, _)
FirstOccurrences(seq, seen) ==
    IF seq = <<>> THEN <<>>
    ELSE IF Head(seq) \in seen THEN FirstOccurrences(Tail(seq), seen)
    ELSE <<Head(seq)>> \o FirstOccurrences(Tail(seq), seen \cup {Head(seq)})

combined_counts(sentences, t) ==
    LET all == words_of(sentences) \o all_bigrams(sentences)
    IN  Cardinality({i \in 1..Len(all) : all[i] = t})

\* lines 156-157
candidates(msgs, g) ==
    LET sentences == all_text(msgs)
        existing_terms == {lower(g[i].term) : i \in 1..Len(g)}
    IN  SelectSeq(FirstOccurrences(words_of(sentences) \o all_bigrams(sentences), {}),
                  LAMBDA t : /\ combined_counts(sentences, t) >= MIN_FREQUENCY
                             /\ lower(t) \notin existing_terms)

\* update_glossary, lines 122-189.  valid is what ask_llm_batch answered over
\* the chunks: any set of terms (the empty set when a call fails, lines 77-79
\* and 111-113); a term is added when the answer for its chunk holds it
update_glossary ==
    /\ pc = "updater_main"
    /\ IF ~xml.exists
       THEN UNCHANGED glossary
       ELSE \E valid \in SUBSET {candidates(xml.messages, glossary)[i] :
                                     i \in 1..Len(candidates(xml.messages, glossary))} :
               glossary' = glossary \o
                   [i \in 1..Len(SelectSeq(candidates(xml.messages, glossary),
                                           LAMBDA t : t \in valid)) |->
                       [term |-> SelectSeq(candidates(xml.messages, glossary),
                                           LAMBDA t : t \in valid)[i],
                        do_not_translate |-> TRUE]]
    /\ pc' = "done"
    /\ UNCHANGED <<CONFIG, xml, database, persisted, locals, num_sostituiti, aside>>

UpdaterNames ==
    { <<"t", "e", "r", "m", " ", "t", "e", "r", "m", " ", "t", "e", "r", "m">>,
      <<"T", "e", "r", "m", "1", " ", "w", "i", "t", "h", " ", "t", "e", "r", "m">>,
      <<"d", "a", "t", "a", " ", "b", "i", "t">>,
      <<>>, NONE }

UpdaterCatalogs ==
    UNION {[1..n -> [name : UpdaterNames, value : {<<>>}]] : n \in 0..MaxMessages}

UpdaterGlossaries ==
    { <<>>, << [term |-> <<"T", "e", "r", "m">>, do_not_translate |-> FALSE] >> }

Absent == [exists |-> FALSE, messages |-> <<>>]

\* the translator with config.json or the catalog absent; the updater with
\* any of them absent or present
FilesInit ==
    /\ CONFIG = NoConfig
    /\ database = [readable |-> TRUE, data |-> <<>>]
    /\ persisted = <<>>
    /\ FreshLocals
    /\ others = {}
    /\ xml_updated = FALSE
    /\ config_file \in {[exists |-> FALSE, data |-> NoConfig]}
                       \cup {[exists |-> TRUE, data |-> c] : c \in Configs}
    /\ \/ /\ pc = "load"
          /\ glossary \in Glossaries
          /\ xml \in {Absent} \cup {[exists |-> TRUE, messages |-> c] : c \in Catalogs}
          /\ ~config_file.exists \/ ~xml.exists
       \/ /\ pc = "updater_load"
          /\ glossary \in UpdaterGlossaries
          /\ xml \in {Absent}
                     \cup {[exists |-> TRUE, messages |-> c] : c \in UpdaterCatalogs}

FilesNext ==
    \/ load_config
    \/ Main
    \/ import_xml_to_json
    \/ translate_items
    \/ BackendReplies
    \/ BackendFails
    \/ translate_items_reply
    \/ translate_items_raise
    \/ translate_items_fallback
    \/ translate_items_fallback_raise
    \/ save_json
    \/ update_xml_with_translations
    \/ map_glossaries_to_database
    \/ updater_load_config
    \/ update_glossary

FilesSpec == FilesInit /\ [][FilesNext]_vars

(***************************************************************************)
(* The script started on a Record Store earlier runs have filled, with     *)
(* every combination of the two phase flags.                               *)
(***************************************************************************)
PhaseRecords ==
    { [name |-> <<"a">>, value |-> <<"b">>, processed |-> TRUE, glossaries |-> <<>>],
      [name |-> <<"a">>, value |-> <<>>, processed |-> FALSE, glossaries |-> <<>>],
      [name |-> <<"b">>, value |-> <<"a">>, processed |-> TRUE, glossaries |-> <<>>],
      [name |-> <<"b">>, value |-> <<>>, processed |-> FALSE, glossaries |-> <<>>] }

PhaseStores ==
    {d \in UNION {[1..n -> PhaseRecords] : n \in 1..MaxRecords} :
        \A i \in 1..Len(d) : \A j \in 1..Len(d) : d[i].name = d[j].name => i = j}

PhaseInit ==
    /\ CONFIG \in {c \in Configs : /\ c.llm_provider = "ollama"
                                   /\ c.chunk_size_translate = 1}
    /\ xml \in {[exists |-> FALSE, messages |-> <<>>]}
               \cup {[exists |-> TRUE, messages |-> c] : c \in Catalogs}
    /\ glossary \in Glossaries
    /\ \E d \in PhaseStores :
         /\ database = [readable |-> TRUE, data |-> d]
         /\ persisted = d
    /\ pc = "start"
    /\ FreshLocals
    /\ others = {}
    /\ xml_updated = FALSE
    /\ config_file = [exists |-> TRUE, data |-> CONFIG]

PhaseSpec == PhaseInit /\ [][Next]_vars

(***************************************************************************)
(* The driving loop with a chunk_size_translate that is zero or negative:  *)
(* line 337 takes the number from config.json as it is, and line 231       *)
(* slices with it.  Every backend call returns.                            *)
(***************************************************************************)
ChunkSizes == {-1, 0, 1}

ChunkInit ==
    /\ CONFIG \in [llm_provider : {"ollama"},
                   chunk_size_translate : ChunkSizes,
                   enable_glossary_mapping_only : {FALSE},
                   enable_generate_translation_only : {FALSE}]
    /\ xml \in {[exists |-> TRUE, messages |-> c] : c \in Catalogs}
    /\ glossary \in Glossaries
    /\ database = [readable |-> TRUE, data |-> <<>>]
    /\ persisted = <<>>
    /\ pc = "start"
    /\ FreshLocals
    /\ others = {}
    /\ xml_updated = FALSE
    /\ config_file = [exists |-> TRUE, data |-> CONFIG]

ChunkSpec == ChunkInit /\ [][LiveNext]_vars

(***************************************************************************)
(* Properties.                                                             *)
(***************************************************************************)
Elems(seq) == {seq[i] : i \in 1..Len(seq)}

\* the step is one of the script, not the interruption of it
ScriptStep == pc' # "interrupted"

\* the text the try block of translate_items parses
Cleaned == translate_texts(CONFIG.llm_provider, response.text)

FallbackReplyArrives == pc = "fallback_call" /\ response.kind = "text"

HasUnprocessed(d) == \E i \in 1..Len(d) : ~d[i].processed

BatchProcessed(d) == \A i \in 1..Len(batch) : d[batch[i]].processed

\* translate_items has returned to the driving loop
Returned == pc \in {"loop", "writeback"} /\ result # "None"

\* C1: when the backend call for the batch fails, translate_items does not
\* raise; it goes on to the per-record fallback of the same batch.
C1_BatchFailureFallsBack ==
    [][(pc = "batch_call" /\ response.kind = "error" /\ ScriptStep)
        => (pc' = "fallback_call" /\ k' = 1 /\ batch' = batch)]_vars

\* C2: when the backend call for one record fails during the fallback, the
\* record keeps its value and processed=false, and the fallback goes on with
\* the next record or saves and returns; it does not raise.
C2_FallbackFailureSkipsRecord ==
    [][(pc = "fallback_call" /\ response.kind = "error" /\ ScriptStep)
        => (/\ pc' \in {"fallback_call", "saving"}
            /\ db' = db
            /\ ~db'[batch[k]].processed)]_vars

\* C3: every record with processed=true has a non-empty value, in memory and
\* in the persisted Record Store.
ProcessedHaveValue(d) == \A i \in 1..Len(d) : d[i].processed => d[i].value # <<>>

C3_ProcessedNonEmpty ==
    /\ ProcessedHaveValue(db)
    /\ ProcessedHaveValue(database.data)

\* C4: in the fallback the value of the record becomes the raw reply text with
\* only the surrounding whitespace trimmed, and processed becomes true.
C4_FallbackRawTrimmed ==
    [][(FallbackReplyArrives /\ ScriptStep)
        => (/\ db'[batch[k]].value = strip(response.text)
            /\ db'[batch[k]].processed)]_vars

\* the reply parses to a list as long as the batch
ValidArrayReply ==
    LET parsed == json_loads(Cleaned)
    IN  parsed.ok /\ parsed.val.t = "list" /\ Len(parsed.val.items) = Len(batch)

\* the reply parses to a list of str as long as the batch
ValidStringArrayReply ==
    /\ ValidArrayReply
    /\ \A i \in 1..Len(batch) : json_loads(Cleaned).val.items[i].t = "str"

\* every record of the batch is processed, no record was asked for on its
\* own, and the save of the whole Record Store is under way
BatchAccepted ==
    /\ pc' = "saving"
    /\ wbuf' = db'
    /\ requests' = requests
    /\ Len(requests') = 1
    /\ \A i \in 1..Len(batch) : db'[batch[i]].processed

\* save_json writes all of the Record Store it was given
SaveCompletes ==
    [][(pc = "saving" /\ ScriptStep) => database' = [readable |-> TRUE, data |-> wbuf]]_vars

\* C5 as stated: for every syntactically valid array as long as the batch,
\* translate_items processes every record of the batch from it, asks for no
\* record on its own and persists the Record Store.
C5_AnyValidArrayAccepted ==
    [][(BatchReplyArrives /\ ValidArrayReply /\ ScriptStep) => BatchAccepted]_vars

\* C5, amended: for every syntactically valid array of strings as long as the
\* batch, every record i of the batch gets element i trimmed as its value and
\* processed=true, the other records are untouched, no per-record request is
\* made and the whole Record Store is persisted.
C5_ValidStringArrayAccepted ==
    /\ [][(BatchReplyArrives /\ ValidStringArrayReply /\ ScriptStep)
           => (/\ BatchAccepted
               /\ Len(db') = Len(db)
               /\ \A i \in 1..Len(batch) :
                    db'[batch[i]].value = strip(json_loads(Cleaned).val.items[i].s)
               /\ \A j \in 1..Len(db) : j \notin Elems(batch) => db'[j] = db[j])]_vars
    /\ SaveCompletes

C5_Witness ==
    /\ pc \in {"loop", "writeback"}
    /\ path = "batch"
    /\ result # "None"
    /\ Len(batch) = 2
    /\ Len(requests) = 1
    /\ database.data = db
    /\ BatchProcessed(database.data)
    /\ database.data[batch[1]].value = <<"x">>

\* the reply cannot be parsed, or parses to something of another length
MalformedReply ==
    LET parsed == json_loads(Cleaned)
    IN  \/ ~parsed.ok
        \/ (HasLen(parsed.val) /\ PyLen(parsed.val) # Len(batch))

\* the request of the fallback for record i of the batch
FallbackRequestFor(d, i) ==
    /\ requests[1 + i].texts = PyStr(d[batch[i]].name)
    /\ ~requests[1 + i].batch_mode
    /\ ~requests[1 + i].system_prompt.batch_mode

\* C6: on a malformed or wrong-length reply translate_items does not raise and
\* starts the per-record fallback at the first record of the batch; while the
\* fallback calls return it goes from record to record; and once it has
\* returned, one request was made for each record of the batch on its own, in
\* batch order, and every record of the batch is processed=true in the
\* persisted Record Store.
C6_MalformedFallsBack ==
    /\ [][(BatchReplyArrives /\ MalformedReply /\ ScriptStep)
           => (/\ pc' = "fallback_call"
               /\ path' = "fallback"
               /\ k' = 1
               /\ caught' \in {"JSONDecodeError", "ValueError"}
               /\ Len(requests') = 2)]_vars
    /\ [][(FallbackReplyArrives /\ ScriptStep)
           => (/\ db'[batch[k]].processed
               /\ IF k < Len(batch) THEN pc' = "fallback_call" /\ k' = k + 1
                  ELSE pc' = "saving" /\ wbuf' = db')]_vars
    /\ [](Returned /\ path = "fallback"
           => (/\ pc = "loop"
               /\ Len(requests) = 1 + Len(batch)
               /\ \A i \in 1..Len(batch) : FallbackRequestFor(database.data, i)
               /\ database.readable
               /\ BatchProcessed(database.data)))

C6_Witness ==
    /\ Returned
    /\ path = "fallback"
    /\ caught = "ValueError"
    /\ Len(batch) = 2
    /\ Len(requests) = 3
    /\ BatchProcessed(database.data)

\* C7: when every backend call returns, the driving loop ends, and when it
\* has ended no record of the persisted Record Store has processed=false.
C7_LoopTerminates ==
    /\ <>(pc = "writeback")
    /\ [](pc = "writeback" => database.readable /\ ~HasUnprocessed(database.data))

C7_Witness ==
    /\ pc = "writeback"
    /\ Len(database.data) = 2
    /\ path = "empty"
    /\ ~HasUnprocessed(database.data)

\* C8 as stated: the value translate_items returns is true exactly when
\* unprocessed records remain in the Record Store after the call.
C8_ReturnsWhetherWorkRemains ==
    Returned => (result = "True" <=> HasUnprocessed(database.data))

\* C8, amended: translate_items returns false only when no unprocessed record
\* remains; after a batch that validated it returns true exactly when
\* unprocessed records remain; after the fallback it always returns true, also
\* when the fallback processed the last unprocessed record.
C8_ReturnValue ==
    Returned =>
        /\ result = "False" => ~HasUnprocessed(database.data)
        /\ path \in {"batch", "empty"} =>
               (result = "True" <=> HasUnprocessed(database.data))
        /\ path = "fallback" => result = "True"

C8_Witness ==
    /\ Returned
    /\ path = "fallback"
    /\ result = "True"
    /\ database.data # <<>>
    /\ ~HasUnprocessed(database.data)

\* the script is inside the driving loop: between two calls of translate_items
\* or at a request or at the save of one
InDrivingLoop ==
    \/ pc \in {"batch_call", "fallback_call"}
    \/ pc = "loop" /\ path # "none"
    \/ pc = "saving" /\ path \in {"batch", "fallback"} /\ after \in {"loop", "writeback"}

\* every record a completed write left processed is in d, processed, with its value
ProgressKept(d) ==
    \A i \in 1..Len(persisted) :
        persisted[i].processed =>
            /\ i <= Len(d)
            /\ d[i].processed
            /\ d[i].name = persisted[i].name
            /\ d[i].value = persisted[i].value

\* C9: when the run is interrupted anywhere in the driving loop, the persisted
\* Record Store is readable and holds every record that an earlier completed
\* write left processed=true, with its value.
C9_InterruptKeepsProgress ==
    [][(InDrivingLoop /\ pc' = "interrupted")
        => (database'.readable /\ ProgressKept(database'.data))]_vars

\* C10: the instruction names only terms of G that occur in the texts of T
\* joined as build_system_prompt joins them (one space between two texts).
NamedTerms == Elems(requests[1].system_prompt.named)

TextOf(texts) == IF texts.isList THEN join(texts.v) ELSE texts.v

NoDuplicateNames(d) ==
    \A i \in 1..Len(d) : \A j \in 1..Len(d) : i # j => d[i].name # d[j].name

C11_NoDuplicateNames ==
    /\ NoDuplicateNames(db)
    /\ NoDuplicateNames(database.data)

\* C12: an import of the catalog into a Record Store that an earlier import
\* of the same catalog filled adds no record and leaves every record as it is:
\* what import_xml_to_json saves is the Record Store it loaded.
C12_ImportIdempotent ==
    [][(/\ pc = "import"
        /\ xml.exists
        /\ database.readable
        /\ database.data # <<>>
        /\ ScriptStep)
        => (pc' = "saving" /\ wbuf' = database.data)]_vars

\* the step is update_xml_with_translations on a catalog that exists
WritesBack == pc = "writeback" /\ xml.exists /\ database.readable

\* the name of entry m: the text of its name child, trimmed
HasName(m) == m.name \notin {NONE, <<>>}

\* the records of d that hold a non-empty value under the name of entry m
Translating(d, m) ==
    {j \in 1..Len(d) : d[j].value # <<>> /\ HasName(m) /\ d[j].name = strip(m.name)}

\* no entry is added, removed, reordered or renamed
SameEntries ==
    /\ xml'.exists
    /\ Len(xml'.messages) = Len(xml.messages)
    /\ \A i \in 1..Len(xml.messages) : xml'.messages[i].name = xml.messages[i].name

C14_WritebackIdempotent ==
    [][WritesBack =>
        UpdatedCatalog(database.data, xml'.messages) = xml'.messages]_vars

\* a write-back has overwritten two entries of the catalog
C14_Witness ==
    /\ pc = "done"
    /\ num_sostituiti = 2
    /\ xml.messages = <<[name |-> <<"a", " ">>, value |-> <<"x">>],
                        [name |-> <<" ">>, value |-> <<"y">>]>>

\* main of the aligner runs with a target that exists
AlignerRuns == pc \in {"align", "realign"} /\ xml.exists

\* the name set of the catalog msgs
TargetNames(msgs) == get_names_from_file(NameTexts(msgs))

\* the names of the other catalogs that the target msgs does not hold
MissingFrom(msgs) ==
    UNION {get_names_from_file(f) : f \in others} \ TargetNames(msgs)

\* how many entries of msgs are the entry m
Count(m, msgs) == Cardinality({i \in 1..Len(msgs) : msgs[i] = m})

\* C15: after the aligner has run on a target that exists, the name set of the
\* target holds the name set of every other catalog, and an entry that the
\* target did not hold before carries a missing name and an empty value, one
\* entry for a name.
C15_TargetHoldsEveryName ==
    [][AlignerRuns =>
        /\ \A f \in others : get_names_from_file(f) \subseteq TargetNames(xml'.messages)
        /\ \A i \in 1..Len(xml'.messages) :
             LET m == xml'.messages[i]
             IN  Count(m, xml'.messages) > Count(m, xml.messages)
                 => /\ m.name \in MissingFrom(xml.messages)
                    /\ m.value = <<>>
                    /\ Count(m, xml'.messages) = Count(m, xml.messages) + 1
                    /\ Count(m, xml.messages) = 0]_vars

C15_Witness ==
    /\ pc = "aligned"
    /\ xml_updated
    /\ Cardinality(others) = 2
    /\ Len(xml.messages) = 4
    /\ \E i \in 1..4 : xml.messages[i] = [name |-> <<"B">>, value |-> <<>>]
    /\ \E i \in 1..4 : xml.messages[i] = [name |-> <<"A">>, value |-> <<>>]

\* the entries of msgs that have a name are in the order of their names,
\* lowered
SortedByName(msgs) ==
    \A i \in 1..Len(msgs) : \A j \in 1..Len(msgs) :
        (i < j /\ msgs[i].name # NONE /\ msgs[j].name # NONE)
            => ~StrLess(lower(clean_text(msgs[j].name)), lower(clean_text(msgs[i].name)))

C17_AlignIdempotent ==
    [][pc = "realign" => (xml' = xml /\ ~xml_updated')]_vars

\* a second run has ended on a target into which the first had inserted
C17_Witness ==
    /\ pc = "aligned"
    /\ ~xml_updated
    /\ \E i \in 1..Len(xml.messages) : xml.messages[i] = [name |-> <<"B">>, value |-> <<>>]


\* a step of an operation whose catalog is absent
CatalogAbsent == pc \in {"import", "writeback", "updater_main"} /\ ~xml.exists

\* a step of a configuration load whose config.json is absent
ConfigAbsent == pc \in {"load", "updater_load"} /\ ~config_file.exists

\* C18 as stated: with the catalog or config.json absent, the operation that
\* needs it returns without raising and leaves the Record Store, the glossary
\* and the catalog unchanged.
C18_MissingFileNeverRaises ==
    [][(CatalogAbsent \/ ConfigAbsent) => (pc' # "raised" /\ UNCHANGED files)]_vars

\* C18: with the catalog absent, import, write-back and term mining return
\* without raising; with config.json absent the translator's load returns the
\* defaults and the script goes on, and the glossary updater's load raises;
\* none of them changes the Record Store, the glossary or the catalog.
C18_MissingFileAborts ==
    [][/\ CatalogAbsent => (pc' # "raised" /\ UNCHANGED files)
       /\ (pc = "load" /\ ~config_file.exists)
            => (pc' = "start" /\ CONFIG' = default_config /\ UNCHANGED files)
       /\ (pc = "updater_load" /\ ~config_file.exists)
            => (pc' = "raised" /\ UNCHANGED <<CONFIG, files>>)]_vars

\* the glossary updater has stopped on the absent config.json
C18_Witness == pc = "raised" /\ CONFIG = NoConfig /\ ~config_file.exists

\* name, value and processed of every record of d
Core(d) == [i \in 1..Len(d) |->
               [name |-> d[i].name, value |-> d[i].value, processed |-> d[i].processed]]

MappingOnly == CONFIG.enable_glossary_mapping_only

WritebackOnly == ~CONFIG.enable_glossary_mapping_only
                 /\ CONFIG.enable_generate_translation_only

\* C19: with the mapping-only or the write-back-only flag set, no request is
\* issued to the LLM, neither import nor translate_items is entered, and the
\* names, values and processed flags of the records written to the Record
\* Store are those it held; mapping-only leaves the catalog alone and
\* write-back-only the Record Store.
C19_OnlyTheSelectedPhase ==
    [][(MappingOnly \/ WritebackOnly)
        => (/\ requests' = <<>>
            /\ pc' \notin {"import", "loop", "batch_call", "fallback_call"}
            /\ Core(persisted') = Core(persisted)
            /\ database'.readable => Core(database'.data) = Core(persisted')
            /\ MappingOnly => xml' = xml
            /\ WritebackOnly => database' = database)]_vars

\* a mapping-only run has ended and has written the glossaries of a record
C19_Witness ==
    /\ MappingOnly
    /\ pc = "done"
    /\ database.readable
    /\ \E i \in 1..Len(database.data) : database.data[i].glossaries # <<>>

\* new holds every record of old under its name, and every record old had
\* processed with the value it had
Kept(old, new) ==
    /\ Len(new) >= Len(old)
    /\ \A i \in 1..Len(old) :
         /\ new[i].name = old[i].name
         /\ old[i].processed => (new[i].processed /\ new[i].value = old[i].value)

\* new differs from old at positions of b only
OnlyInBatch(old, new, b) ==
    /\ Len(new) = Len(old)
    /\ \A i \in 1..Len(old) : i \notin Elems(b) => new[i] = old[i]

\* b is the first n unprocessed positions of d, in Record Store order
FirstUnprocessed(d, b, n) ==
    /\ \A i, j \in 1..Len(b) : i < j => b[i] < b[j]
    /\ Elems(b) = {i \in 1..Len(d) :
                     /\ ~d[i].processed
                     /\ Cardinality({j \in 1..i : ~d[j].processed}) <= n}

InTranslateItems == {"batch_call", "fallback_call"}

\* C20: every write of the Record Store keeps each record under its name and
\* each processed record processed with its value; a translate_items call
\* selects the first chunk_size_translate unprocessed records of the store
\* and what it holds and writes differs from the store at those alone.
C20_RecordsKept ==
    [][/\ Kept(persisted, persisted')
       /\ pc' = "saving" => Kept(persisted, wbuf')
       /\ pc' \in InTranslateItems
            => (/\ FirstUnprocessed(persisted, batch', CONFIG.chunk_size_translate)
                /\ OnlyInBatch(persisted, db', batch'))
       /\ (pc \in InTranslateItems /\ pc' = "saving")
            => OnlyInBatch(persisted, wbuf', batch)]_vars

\* a translate_items call has written the second record of a store whose
\* first record an earlier call had written
C20_Witness ==
    /\ pc \in {"loop", "writeback"}
    /\ result # "None"
    /\ batch = <<2>>
    /\ Len(persisted) >= 2
    /\ persisted[1].processed
    /\ persisted[2].processed

\* C21: a batch reply that does not parse to an array of strings as long as
\* the batch is not accepted: translate_items goes on to the per-record
\* fallback and no value of the batch comes from that reply.
C21_OnlyStringArraysAccepted ==
    [][(BatchReplyArrives /\ ~ValidStringArrayReply /\ ScriptStep)
        => (pc' = "fallback_call" /\ path' = "fallback" /\ Len(requests') = 2)]_vars

\* the call of translate_items issues its batch request, and nothing before it
BatchRequestFirst ==
    (pc = "loop" /\ pc' = "batch_call")
        => (Len(requests') = 1 /\ requests'[1].batch_mode)

\* a further request is for one record on its own, the next of the batch in
\* batch order, after the try of the batch reply has failed
PerRecordAfterFailure ==
    (pc \in InTranslateItems /\ Len(requests') > Len(requests))
        => (/\ caught' # "none"
            /\ Len(requests') = Len(requests) + 1
            /\ ~requests'[Len(requests')].batch_mode
            /\ requests'[Len(requests')].texts
                 = PyStr(db'[batch[Len(requests)]].name))

\* the call ends, by a return or by an exception
CallEnds == pc \in InTranslateItems /\ pc' \notin InTranslateItems

\* C22: a translate_items call that finds unprocessed records issues one batch
\* request first, per-record requests only after the batch attempt failed, in
\* batch order, and when it ends it has issued 1 or 1 + Len(batch) requests.
C22_OneOrAllRequests ==
    [][ScriptStep
        => (/\ BatchRequestFirst
            /\ PerRecordAfterFailure
            /\ CallEnds => Len(requests) \in {1, 1 + Len(batch)})]_vars

\* C23: every child the target's container held before the aligner ran is
\* held after it, as many times, with its name and value.
C23_NoEntryLost ==
    [][AlignerRuns =>
        \A i \in 1..Len(xml.messages) :
            Count(xml.messages[i], xml'.messages)
                >= Count(xml.messages[i], xml.messages)]_vars

\* how many records of d have processed false
NumUnprocessed(d) == Cardinality({i \in 1..Len(d) : ~d[i].processed})

\* the write of a translate_items call that returns true is completed
TrueReturned ==
    /\ pc = "saving"
    /\ path \in {"batch", "fallback"}
    /\ result = "True"
    /\ pc' = "loop"

\* C24: for every chunk_size_translate, zero and negative ones too, a
\* translate_items call that returns true leaves fewer unprocessed records in
\* the persisted Record Store than it found.
C24_TrueMeansProgress ==
    [][TrueReturned => NumUnprocessed(persisted') < NumUnprocessed(persisted)]_vars
====
